---- MODULE Spec2Model ----
(***************************************************************************)
(* Analysis-job orchestration of Lizicular: the tender-embedded analysis   *)
(* jobs (backend/tenders), their background dispatcher, the per-analysis   *)
(* websocket registry (backend/automations/websocket) and the n8n          *)
(* execution records (backend/automations/routes.py).                      *)
(*                                                                         *)
(* Names that one source file uses from another (MongoDB.db, the           *)
(* Automation table, AnalysisResult.pending_since) are taken to resolve as *)
(* the using code intends; every function is modelled as its body reads.   *)
(***************************************************************************)
EXTENDS Integers, Sequences, FiniteSets, TLC

\* ------------------------------------------------------------------ bounds
MaxJobs == 2        \* analysis ids uuid4 hands out in one behaviour
MaxRunning == 1     \* background tasks the event loop runs at a time
MaxConcurrent == 2  \* background tasks interleaved in SpecConcurrent
MaxExecs == 1       \* execution ids created in one behaviour
MaxCallbacks == 2   \* calls of the n8n callback webhook in one behaviour
MaxPublish == 2     \* calls of a registry send in one behaviour of a registry alone
MaxRenames == 2     \* calls of update_analysis_name in one behaviour
MaxTokens == 6      \* tokens create_token signs in one behaviour
MaxRefreshes == 2   \* /auth/refresh requests the server handles at a time
MaxFiles == 7       \* ids insert_one hands out in db.tender_files in one behaviour
MaxDeletes == 2     \* delete_document calls the server handles at a time

\* --------------------------------------------------------------- constants
max_retries == 15

Null == "null"
EmptyDict == "{}"
NoDoc == "no_doc"
NoTime == "no_time"  \* a datetime / float field that is None
utcnow == "utcnow"   \* a value of datetime.utcnow()

TenderIds == {"t1", "t2"}
AutomationInputs == {"a1", "ax"}
Users == {"u1", "u2", "u3", "u4"}
Channels == {"c1"}
Sockets == {"c1", "c2"}        \* websockets of the ConnectionManager
UserSockets == {"w1", "w2"}    \* websockets of the WebSocketManager
JobIds == 1..MaxJobs
DataVals == {Null, EmptyDict, "d1"}

PENDING == "pending"
PROCESSING == "processing"
COMPLETED == "completed"
FAILED == "failed"
CANCELLED == "cancelled"

AnalysisStatus == {PENDING, PROCESSING, COMPLETED, FAILED}
ProcedureStatus == {PENDING, PROCESSING, COMPLETED, FAILED, CANCELLED}
ExecIds == 1..MaxExecs

VARIABLES
    tenders,             \* ids of the documents of db.tenders
    analysis_results,    \* tender id -> its embedded analysis_results array
    result_docs,         \* db.analysis_results: analysis id -> data | NoDoc
    automations,         \* rows of the Automation table
    members,             \* user -> WorkspaceMember.role in the workspace
    nextId,              \* next value of uuid.uuid4()
    request,             \* the api_generate_analysis call in flight
    response,            \* the last HTTP response of api_generate_analysis
    tasks,               \* analysis id -> its run_analysis_in_background
    active_connections,  \* ConnectionManager.active_connections
    closed,              \* websockets that were disconnected or dropped
    inbox,               \* websocket -> the messages it received
    sent,                \* analysis id -> the messages send_to_analysis_id was called with
    audit_log,           \* analysis-generation rows of the audit table
    executions,          \* db.analysis_executions: id -> <<record>> | <<>>
    exec_calls,          \* execution id -> position of its call_n8n_webhook
    cancels,             \* execution id -> position of a cancel_execution call
    cancel_response,     \* the last HTTP status of cancel_execution
    callbacks,           \* number of n8n_webhook_callback calls so far
    analyses,            \* tender id -> its analyses array (n8n results)
    user_msgs,           \* the messages websocket_manager.send_to_user was called with
    publishing,          \* the send_to_analysis_id call in flight, one send_json at a time
    user_connections,    \* WebSocketManager.active_connections
    user_sending,        \* the send_to_user call in flight, one send_json at a time
    user_keys,           \* the keys of WebSocketManager.active_connections, in dict order
    broadcast_calls,     \* the broadcast calls made so far and how each ended
    doc_names,           \* db.analysis_results: analysis id -> the name field of its document
    renames,             \* the update_analysis_name calls made so far and how each ended
    tokens,              \* the tokens signed so far: jti -> its type claim
    blacklist,           \* the jti with a blacklist:<jti> key in Redis
    refreshing,          \* request slot -> position of its refresh_access_token
    refresh_uses,        \* jti -> number of /auth/refresh answered 200 for it
    auth_response,       \* the last answer of an endpoint that takes a token
    documents,           \* tender id -> the ids in its documents array
    tender_files,        \* the _id of the documents of db.tender_files
    nextFile,            \* next _id of db.tender_files
    adding,              \* the add_documents_to_existing_tender call in flight
    deleting,            \* request slot -> position of its delete_document
    doc_response,        \* the last answer of add_documents / delete_document
    workspace,           \* the Workspace row created by create_workspace: <<row>> | <<>>
    workspace_members,   \* user -> role of its WorkspaceMember row in that workspace
    ws_response          \* the last answer of a workspace endpoint

tenderVars == <<tenders, analysis_results, result_docs, automations, members,
                nextId, request, response, tasks, active_connections,
                closed, inbox, sent, audit_log>>
execVars == <<executions, exec_calls, cancels, cancel_response, callbacks,
              analyses, user_msgs>>
vars == <<tenders, analysis_results, result_docs, automations, members,
          nextId, request, response, tasks, active_connections,
          closed, inbox, sent, audit_log, executions, exec_calls, cancels,
          cancel_response, callbacks, analyses, user_msgs,
          publishing, user_connections, user_sending,
          user_keys, broadcast_calls, doc_names, renames,
          tokens, blacklist, refreshing, refresh_uses, auth_response,
          documents, tender_files, nextFile, adding, deleting, doc_response,
          workspace, workspace_members, ws_response>>
wsVars == <<workspace, workspace_members, ws_response>>
docVars == <<documents, tender_files, nextFile, adding, deleting, doc_response>>
renameVars == <<doc_names, renames>>
authVars == <<tokens, blacklist, refreshing, refresh_uses, auth_response>>
sideVars == <<broadcast_calls, renameVars, authVars, docVars, wsVars>>
pubVars == <<publishing, user_connections, user_sending, user_keys>>

\* ----------------------------------------------------------------- helpers
Range(s) == {s[i] : i \in 1..Len(s)}

\* python truthiness of an optional dict / str
Truthy(v) == v \notin {Null, EmptyDict}

role_hierarchy(r) ==
    CASE r = "OWNER" -> 4
      [] r = "ADMIN" -> 3
      [] r = "EDITOR" -> 2
      [] r = "VIEWER" -> 1
      [] OTHER -> 0

\* check_workspace_permission that lets every member of the workspace pass
check_workspace_permission_member(user_id, required_role) ==
    members[user_id] # Null

check_workspace_permission(user_id, required_role) ==
    IF members[user_id] = Null THEN FALSE
    ELSE role_hierarchy(members[user_id]) >= role_hierarchy(required_role)

\* the embedded job of tender t with id a, as a set (empty when absent)
JobsOf(ar, t, a) == {r \in Range(ar[t]) : r.id = a}

\* <<job>> when the tender holds the job, <<>> for None
get_analysis_by_id(t, a) ==
    IF t \in tenders /\ JobsOf(analysis_results, t, a) # {}
    THEN <<CHOOSE r \in JobsOf(analysis_results, t, a) : TRUE>>
    ELSE <<>>

check_for_existing_analysis(t, a) ==
    /\ t \in tenders
    /\ \E r \in Range(analysis_results[t]) :
          r.procedure_id = a /\ r.status \in {PENDING, PROCESSING}

\* the $set of update_analysis_result applied to one embedded job
update_fields(r, status, data, error_message, processing_time, clear_pending_since) ==
    [r EXCEPT
        !.status = status,
        !.updated_at = utcnow,
        !.data = IF Truthy(data) THEN data ELSE @,
        !.error_message = IF Truthy(error_message) THEN error_message ELSE @,
        !.processing_time = IF processing_time # NoTime THEN processing_time ELSE @,
        !.pending_since = IF clear_pending_since THEN NoTime ELSE @]

\* update_analysis_result whose $set reaches every job of the tender
update_analysis_result_every(t, a, status, data, error_message, processing_time, clear_pending_since) ==
    IF t \in tenders /\ JobsOf(analysis_results, t, a) # {}
    THEN [analysis_results EXCEPT ![t] =
            [i \in 1..Len(@) |->
                update_fields(@[i], status, data, error_message,
                              processing_time, clear_pending_since)]]
    ELSE analysis_results

\* update_analysis_result with upsert semantics: an update that matches no
\* job inserts one
update_analysis_result_upsert(t, a, status, data, error_message, processing_time, clear_pending_since) ==
    IF t \in tenders /\ JobsOf(analysis_results, t, a) # {}
    THEN [analysis_results EXCEPT ![t] =
            [i \in 1..Len(@) |->
                IF @[i].id = a
                THEN update_fields(@[i], status, data, error_message,
                                   processing_time, clear_pending_since)
                ELSE @[i]]]
    ELSE [analysis_results EXCEPT ![t] =
            Append(@, [id |-> a, status |-> status, updated_at |-> utcnow])]

\* db.tenders.update_one({_id, analysis_results.id}, {$set: ...})
update_analysis_result(t, a, status, data, error_message, processing_time, clear_pending_since) ==
    IF t \in tenders /\ JobsOf(analysis_results, t, a) # {}
    THEN [analysis_results EXCEPT ![t] =
            [i \in 1..Len(@) |->
                IF @[i].id = a /\ \A k \in 1..(i-1) : @[k].id # a
                THEN update_fields(@[i], status, data, error_message,
                                   processing_time, clear_pending_since)
                ELSE @[i]]]
    ELSE analysis_results

update_matched(t, a) == t \in tenders /\ JobsOf(analysis_results, t, a) # {}

\* line 746: result.modified_count > 0
update_returned(t, a, status, data, error_message, processing_time, clear_pending_since) ==
    update_analysis_result(t, a, status, data, error_message, processing_time,
                           clear_pending_since) # analysis_results

AnalysisResult(id, procedure_id, user_id) ==
    [id |-> id, name |-> "Unknown Automation - date",
     procedure_id |-> procedure_id, procedure_name |-> "Unknown Automation",
     created_at |-> utcnow, created_by |-> user_id,
     processing_time |-> NoTime, status |-> PENDING, pending_since |-> utcnow,
     updated_at |-> NoTime, error_message |-> Null, data |-> Null]

\* a dispatcher that was not launched; retries is the loop counter of the
\* polling loop (0 outside the loop); marked records whether the PROCESSING
\* write of the run matched a job
NoTask == [pc |-> "unborn", tender_id |-> Null, retries |-> 0,
           verified |-> NoDoc, error_message |-> Null, result |-> <<>>,
           marked |-> FALSE]

\* a task that returned ("done") or raised ("crashed"): its locals are
\* gone; tender_id, error_message and marked stay as the record of the run
Ended(task, pc) == [NoTask EXCEPT !.pc = pc, !.tender_id = task.tender_id,
                                  !.error_message = task.error_message,
                                  !.marked = task.marked]

Running == {a \in JobIds : tasks[a].pc \notin {"unborn", "mark", "done", "crashed"}}

Init ==
    /\ tenders = TenderIds
    /\ analysis_results = [t \in TenderIds |-> <<>>]
    /\ result_docs = [j \in JobIds |-> NoDoc]
    /\ automations = {"a1"}
    /\ members = [u \in Users |-> CASE u = "u1" -> "ADMIN"
                                     [] u = "u2" -> "EDITOR"
                                     [] u = "u3" -> "VIEWER"
                                     [] OTHER -> Null]
    /\ nextId = 1
    /\ request = [pc |-> "idle"]
    /\ response = [code |-> 0]
    /\ tasks = [j \in JobIds |-> NoTask]
    /\ active_connections = <<>>
    /\ closed = {}
    /\ inbox = [c \in Sockets \cup UserSockets |-> <<>>]
    /\ sent = [j \in JobIds |-> <<>>]
    /\ audit_log = {}
    /\ executions = [e \in ExecIds |-> <<>>]
    /\ exec_calls = [e \in ExecIds |-> "none"]
    /\ cancels = [e \in ExecIds |-> "idle"]
    /\ cancel_response = 0
    /\ callbacks = 0
    /\ analyses = [t \in TenderIds |-> <<>>]
    /\ user_msgs = <<>>
    /\ publishing = [pc |-> "idle"]
    /\ user_connections = <<>>
    /\ user_sending = [pc |-> "idle"]
    /\ user_keys = <<>>
    /\ broadcast_calls = <<>>
    /\ doc_names = [j \in JobIds |-> Null]
    /\ renames = <<>>
    /\ tokens = <<>>
    /\ blacklist = {}
    /\ refreshing = [r \in 1..MaxRefreshes |-> [pc |-> "idle"]]
    /\ refresh_uses = [j \in 1..MaxTokens |-> 0]
    /\ auth_response = [code |-> 0]
    /\ documents = [t \in TenderIds |-> IF t = "t1" THEN <<1>> ELSE <<2>>]
    /\ tender_files = {1, 2}
    /\ nextFile = 3
    /\ adding = [pc |-> "idle"]
    /\ deleting = [r \in 1..MaxDeletes |-> [pc |-> "idle"]]
    /\ doc_response = [code |-> 0]
    /\ workspace = <<>>
    /\ workspace_members = [u \in Users |-> Null]
    /\ ws_response = [code |-> 0]

staticVars == <<automations, members>>
regVars == <<active_connections, closed, inbox>>

\* ------------------------------------------------- POST generate_analysis
\* api_generate_analysis up to the call of create_placeholder_analysis
SubmitCheck(t, a, u) ==
    /\ request.pc = "idle"
    /\ nextId <= MaxJobs
    /\ IF t \notin tenders
       THEN /\ response' = [code |-> 404, detail |-> "Tender not found"]
            /\ UNCHANGED request
       ELSE IF ~check_workspace_permission(u, "EDITOR")
       THEN /\ response' = [code |-> 403, detail |-> "Permission denied"]
            /\ UNCHANGED request
       ELSE IF a \notin automations
       THEN /\ response' = [code |-> 404, detail |-> "Automation not found"]
            /\ UNCHANGED request
       ELSE /\ request' = [pc |-> "checked", tender_id |-> t,
                           automation_id |-> a, user_id |-> u]
            /\ UNCHANGED response
    /\ UNCHANGED <<tenders, analysis_results, result_docs, staticVars, sideVars, pubVars, nextId,
                   tasks, regVars, sent, audit_log, execVars>>

\* create_placeholder_analysis that creates the job already PROCESSING
create_placeholder_analysis_processing(t, a, u) ==
    IF t \in tenders
    THEN [analysis_results EXCEPT ![t] =
            Append(@, [AnalysisResult(nextId, a, u) EXCEPT !.status = PROCESSING])]
    ELSE analysis_results

\* create_placeholder_analysis: the $push of find_one_and_update, or None
create_placeholder_analysis(t, a, u) ==
    IF t \in tenders
    THEN [analysis_results EXCEPT ![t] = Append(@, AnalysisResult(nextId, a, u))]
    ELSE analysis_results

\* api_generate_analysis from create_placeholder_analysis to the response;
\* add_task launches the dispatcher once the response is produced
SubmitCreate ==
    /\ request.pc = "checked"
    /\ analysis_results' = create_placeholder_analysis(
            request.tender_id, request.automation_id, request.user_id)
    /\ IF request.tender_id \in tenders
       THEN /\ response' = [code |-> 202, analysis_id |-> nextId]
            /\ tasks' = [tasks EXCEPT ![nextId] =
                    [NoTask EXCEPT !.pc = "mark", !.tender_id = request.tender_id]]
            /\ nextId' = nextId + 1
       ELSE /\ response' = [code |-> 500, detail |-> "Could not create analysis placeholder"]
            /\ UNCHANGED <<tasks, nextId>>
    /\ request' = [pc |-> "idle"]
    /\ UNCHANGED <<tenders, result_docs, staticVars, sideVars, pubVars, regVars, sent,
                   audit_log, execVars>>

\* ------------------------------------------------------ other API calls
\* api_delete_tender / delete_tender by an ADMIN of the workspace
DeleteTender(t, u) ==
    /\ t \in tenders
    /\ check_workspace_permission(u, "ADMIN")
    /\ tenders' = tenders \ {t}
    /\ analysis_results' = [analysis_results EXCEPT ![t] = <<>>]
    /\ UNCHANGED <<result_docs, staticVars, sideVars, pubVars, nextId, request, response,
                   tasks, regVars, sent, audit_log, execVars>>

\* the automation workflow, once called, stores its result document
\* {_id: analysis_id, data: d}
WorkflowWritesDoc(a, d) ==
    /\ tasks[a].pc \notin {"unborn", "mark"}
    /\ result_docs[a] = NoDoc
    /\ result_docs' = [result_docs EXCEPT ![a] = d]
    /\ UNCHANGED <<tenders, analysis_results, staticVars, sideVars, pubVars, nextId, request,
                   response, tasks, regVars, sent, audit_log, execVars>>

\* ------------------------------------------------------ ConnectionManager
Connected == UNION {Range(active_connections[k]) : k \in DOMAIN active_connections}

connect(c, a) ==
    /\ c \notin closed /\ c \notin Connected
    /\ active_connections' =
          [k \in DOMAIN active_connections \cup {a} |->
              IF k = a
              THEN (IF a \in DOMAIN active_connections
                    THEN Append(active_connections[a], c) ELSE <<c>>)
              ELSE active_connections[k]]
    /\ UNCHANGED <<tenders, analysis_results, result_docs, staticVars, sideVars, pubVars, nextId,
                   request, response, tasks, closed, inbox, sent,
                   audit_log, execVars>>

disconnect(c, a) ==
    /\ a \in DOMAIN active_connections
    /\ c \in Range(active_connections[a])
    /\ active_connections' = [active_connections EXCEPT ![a] =
                                 SelectSeq(@, LAMBDA x : x # c)]
    /\ closed' = closed \cup {c}
    /\ UNCHANGED <<tenders, analysis_results, result_docs, staticVars, sideVars, pubVars, nextId,
                   request, response, tasks, inbox, sent, audit_log, execVars>>

\* send_to_analysis_id(message, a); send_json raises on the websockets in F
send_to_analysis_id(message, a, F) ==
    /\ sent' = [sent EXCEPT ![a] = Append(@, message)]
    /\ IF a \in DOMAIN active_connections
       THEN /\ F \subseteq Range(active_connections[a])
            /\ active_connections' = [active_connections EXCEPT ![a] =
                                         SelectSeq(@, LAMBDA x : x \notin F)]
            /\ inbox' = [c \in DOMAIN inbox |->
                            IF c \in Range(active_connections[a]) \ F
                            THEN Append(inbox[c], message) ELSE inbox[c]]
            /\ closed' = closed \cup F
       ELSE /\ F = {}
            /\ UNCHANGED regVars

\* ---------------------------------------------- run_analysis_in_background
task_frame == <<tenders, result_docs, staticVars, sideVars, pubVars, nextId, request, response, execVars>>

\* line 538: the PROCESSING write
MarkProcessing_write(a) ==
    /\ tasks[a].pc = "mark"
    /\ analysis_results' = update_analysis_result(tasks[a].tender_id, a,
                               PROCESSING, Null, Null, NoTime, FALSE)
    /\ tasks' = [tasks EXCEPT ![a].pc = "post",
                              ![a].marked = update_returned(tasks[a].tender_id, a,
                                               PROCESSING, Null, Null, NoTime, FALSE)]
    /\ UNCHANGED <<task_frame, regVars, sent, audit_log>>

\* the task starts when the event loop has room for it
MarkProcessing(a) ==
    /\ Cardinality(Running) < MaxRunning
    /\ MarkProcessing_write(a)

\* lines 542-548: client.post and raise_for_status
Post(a, outcome) ==
    /\ tasks[a].pc = "post"
    /\ tasks' = [tasks EXCEPT ![a].pc = IF outcome = "ok" THEN "poll" ELSE "http_failed"]
    /\ UNCHANGED <<task_frame, analysis_results, regVars, sent, audit_log>>

\* lines 554-563: one find_one of the polling loop, and the timeout after
\* the last of them
Poll(a) ==
    /\ tasks[a].pc = "poll"
    /\ tasks[a].retries < max_retries
    /\ IF result_docs[a] # NoDoc
       THEN tasks' = [tasks EXCEPT ![a].verified = result_docs[a],
                                   ![a].retries = 0,
                                   ![a].pc = "complete"]
       ELSE tasks' = [tasks EXCEPT ![a].retries =
                                       IF tasks[a].retries + 1 = max_retries
                                       THEN 0 ELSE @ + 1,
                                   ![a].error_message =
                                       IF tasks[a].retries + 1 = max_retries
                                       THEN "timeout" ELSE @,
                                   ![a].pc =
                                       IF tasks[a].retries + 1 = max_retries
                                       THEN "exception" ELSE @]
    /\ UNCHANGED <<task_frame, analysis_results, regVars, sent, audit_log>>

\* lines 566-574: the COMPLETED write with the data of the verified document
WriteCompleted(a) ==
    /\ tasks[a].pc = "complete"
    /\ analysis_results' = update_analysis_result(tasks[a].tender_id, a,
                               COMPLETED, tasks[a].verified, Null, NoTime, FALSE)
    /\ tasks' = [tasks EXCEPT ![a].pc = "audit"]
    /\ UNCHANGED <<task_frame, regVars, sent, audit_log>>

\* lines 577-587: log_tender_event
Audit(a) ==
    /\ tasks[a].pc = "audit"
    /\ audit_log' = audit_log \cup {a}
    /\ tasks' = [tasks EXCEPT ![a].pc = "readback"]
    /\ UNCHANGED <<task_frame, analysis_results, regVars, sent>>

\* line 618: get_analysis_by_id; None.model_dump() raises out of the task
Readback(a) ==
    /\ tasks[a].pc = "readback"
    /\ LET r == get_analysis_by_id(tasks[a].tender_id, a)
       IN tasks' = [tasks EXCEPT ![a] =
                       IF r = <<>> THEN Ended(@, "crashed")
                       ELSE [@ EXCEPT !.result = r, !.pc = "notify_completed"]]
    /\ UNCHANGED <<task_frame, analysis_results, regVars, sent, audit_log>>

\* lines 619-622
NotifyCompleted(a, F) ==
    /\ tasks[a].pc = "notify_completed"
    /\ send_to_analysis_id([status |-> "COMPLETED", result |-> tasks[a].result[1]], a, F)
    /\ tasks' = [tasks EXCEPT ![a] = Ended(@, "done")]
    /\ UNCHANGED <<task_frame, analysis_results, audit_log>>

\* the except block without its send_to_analysis_id
HandleHttpError_silent(a) ==
    /\ tasks[a].pc = "http_failed"
    /\ analysis_results' = update_analysis_result(tasks[a].tender_id, a,
                               FAILED, Null, "automation_error", NoTime, FALSE)
    /\ tasks' = [tasks EXCEPT ![a] =
                    Ended([@ EXCEPT !.error_message = "automation_error"], "done")]
    /\ UNCHANGED <<task_frame, regVars, sent, audit_log>>

\* lines 589-597: except (HTTPStatusError, RequestError)
HandleHttpError(a) ==
    /\ tasks[a].pc = "http_failed"
    /\ analysis_results' = update_analysis_result(tasks[a].tender_id, a,
                               FAILED, Null, "automation_error", NoTime, FALSE)
    /\ tasks' = [tasks EXCEPT ![a].pc = "notify_http_failed",
                              ![a].error_message = "automation_error"]
    /\ UNCHANGED <<task_frame, regVars, sent, audit_log>>

\* lines 598-601
NotifyHttpFailed(a, F) ==
    /\ tasks[a].pc = "notify_http_failed"
    /\ send_to_analysis_id([status |-> "FAILED", error |-> tasks[a].error_message], a, F)
    /\ tasks' = [tasks EXCEPT ![a] = Ended(@, "done")]
    /\ UNCHANGED <<task_frame, analysis_results, audit_log>>

\* lines 602-611: except Exception
HandleException(a) ==
    /\ tasks[a].pc = "exception"
    /\ analysis_results' = update_analysis_result(tasks[a].tender_id, a,
                               FAILED, Null, tasks[a].error_message, NoTime, FALSE)
    /\ tasks' = [tasks EXCEPT ![a].pc = "notify_exception"]
    /\ UNCHANGED <<task_frame, regVars, sent, audit_log>>

\* lines 612-615
NotifyException(a, F) ==
    /\ tasks[a].pc = "notify_exception"
    /\ send_to_analysis_id([status |-> "FAILED", error |-> tasks[a].error_message], a, F)
    /\ tasks' = [tasks EXCEPT ![a] = Ended(@, "done")]
    /\ UNCHANGED <<task_frame, analysis_results, audit_log>>

\* run_analysis_in_background after its first await
DispatcherSteps(a) ==
    \/ \E o \in {"ok", "RequestError", "HTTPStatusError"} : Post(a, o)
    \/ Poll(a)
    \/ WriteCompleted(a)
    \/ Audit(a)
    \/ Readback(a)
    \/ HandleHttpError(a)
    \/ HandleException(a)
    \/ \E F \in SUBSET Channels :
          NotifyCompleted(a, F) \/ NotifyHttpFailed(a, F) \/ NotifyException(a, F)

Dispatcher(a) ==
    \/ MarkProcessing(a)
    \/ DispatcherSteps(a)

Next ==
    \/ \E t \in TenderIds, a \in AutomationInputs, u \in Users : SubmitCheck(t, a, u)
    \/ SubmitCreate
    \/ \E t \in TenderIds, u \in Users : DeleteTender(t, u)
    \/ \E a \in JobIds, d \in DataVals : WorkflowWritesDoc(a, d)
    \/ \E c \in Channels, a \in 1..(nextId - 1) : connect(c, a) \/ disconnect(c, a)
    \/ \E a \in JobIds : Dispatcher(a)

Spec == Init /\ [][Next]_vars

\* ----------------------------- dispatchers of one tender, interleaved
\* add_task hands every task to the event loop; the tasks of several
\* submissions interleave at their awaits
DispatcherConcurrent(a) ==
    \/ /\ Cardinality(Running) < MaxConcurrent
       /\ MarkProcessing_write(a)
    \/ DispatcherSteps(a)

NextConcurrent ==
    \/ \E t \in TenderIds, a \in AutomationInputs, u \in Users : SubmitCheck(t, a, u)
    \/ SubmitCreate
    \/ \E a \in JobIds, d \in DataVals : WorkflowWritesDoc(a, d)
    \/ \E c \in Channels, a \in 1..(nextId - 1) : connect(c, a) \/ disconnect(c, a)
    \/ \E a \in JobIds : DispatcherConcurrent(a)

SpecConcurrent == Init /\ [][NextConcurrent]_vars

\* ------------------------------------------ faults of the collaborators
\* line 538 raises (MongoDB unavailable): outside the try, the task dies
MarkProcessingRaises(a) ==
    /\ tasks[a].pc = "mark"
    /\ Cardinality(Running) < MaxRunning
    /\ tasks' = [tasks EXCEPT ![a] = Ended(@, "crashed")]
    /\ UNCHANGED <<task_frame, analysis_results, regVars, sent, audit_log>>

\* an exception other than HTTPStatusError / RequestError inside the try:
\* find_one (line 555) or update_analysis_result (line 568) raises
StorageRaises(a) ==
    /\ tasks[a].pc \in {"poll", "complete"}
    /\ tasks' = [tasks EXCEPT ![a].pc = "exception", ![a].retries = 0,
                              ![a].error_message = "unexpected"]
    /\ UNCHANGED <<task_frame, analysis_results, regVars, sent, audit_log>>

\* log_tender_event (lines 577-587) raises after the COMPLETED write
AuditRaises(a) ==
    /\ tasks[a].pc = "audit"
    /\ tasks' = [tasks EXCEPT ![a].pc = "exception",
                              ![a].error_message = "unexpected"]
    /\ UNCHANGED <<task_frame, analysis_results, regVars, sent, audit_log>>

\* update_analysis_result raises inside an except block (lines 591, 605),
\* or get_analysis_by_id raises in the else block (line 618)
HandlerRaises(a) ==
    /\ tasks[a].pc \in {"http_failed", "exception", "readback"}
    /\ tasks' = [tasks EXCEPT ![a] = Ended(@, "crashed")]
    /\ UNCHANGED <<task_frame, analysis_results, regVars, sent, audit_log>>

NextFaults ==
    \/ Next
    \/ \E a \in JobIds : MarkProcessingRaises(a)
    \/ \E a \in JobIds : StorageRaises(a)
    \/ \E a \in JobIds : AuditRaises(a)
    \/ \E a \in JobIds : HandlerRaises(a)

SpecFaults == Init /\ [][NextFaults]_vars

\* ------------------------------------------------ n8n execution records
exec_frame == <<tenders, analysis_results, result_docs, staticVars, sideVars, pubVars, nextId,
                request, response, tasks, regVars, sent, audit_log>>

AnalysisExecution(id, tender_id, user_id) ==
    [id |-> id, tender_id |-> tender_id, procedure_id |-> "p1",
     user_id |-> user_id, status |-> PENDING, completed_at |-> NoTime,
     error_message |-> Null, result |-> Null, result_summary |-> Null,
     n8n_execution_id |-> Null]

NewExecId == CHOOSE e \in ExecIds : executions[e] = <<>> /\ exec_calls[e] = "none"

\* POST /n8n/execute: insert_one of a PENDING execution, add_task
execute_analysis(t, u) ==
    /\ \E e \in ExecIds : executions[e] = <<>> /\ exec_calls[e] = "none"
    /\ t \in tenders
    /\ executions' = [executions EXCEPT ![NewExecId] = <<AnalysisExecution(NewExecId, t, u)>>]
    /\ exec_calls' = [exec_calls EXCEPT ![NewExecId] = "post"]
    /\ UNCHANGED <<exec_frame, cancels, cancel_response, callbacks, analyses, user_msgs>>

\* db.analysis_executions.update_one({"id": e}, {"$set": fields})
update_execution(e, fields) ==
    [executions EXCEPT ![e] =
        IF @ = <<>> THEN <<>>
        ELSE <<[k \in DOMAIN @[1] |-> IF k \in DOMAIN fields THEN fields[k] ELSE @[1][k]]>>]

\* call_n8n_webhook, lines 198-203: the POST to the n8n webhook
call_n8n_webhook_post(e, ok) ==
    /\ exec_calls[e] = "post"
    /\ exec_calls' = [exec_calls EXCEPT ![e] = IF ok THEN "posted" ELSE "http_error"]
    /\ UNCHANGED <<exec_frame, executions, cancels, cancel_response, callbacks,
                   analyses, user_msgs>>

\* call_n8n_webhook, lines 209-232: the PROCESSING write and its notification
call_n8n_webhook_processing(e) ==
    /\ exec_calls[e] = "posted"
    /\ executions' = update_execution(e, [status |-> PROCESSING, n8n_execution_id |-> "n8n"])
    /\ user_msgs' = Append(user_msgs, [execution_id |-> e, status |-> PROCESSING])
    /\ exec_calls' = [exec_calls EXCEPT ![e] = "done"]
    /\ UNCHANGED <<exec_frame, cancels, cancel_response, callbacks, analyses>>

\* call_n8n_webhook, lines 234-259: except httpx.HTTPError
call_n8n_webhook_failed(e) ==
    /\ exec_calls[e] = "http_error"
    /\ executions' = update_execution(e, [status |-> FAILED,
                        error_message |-> "Error al llamar a n8n",
                        completed_at |-> utcnow])
    /\ user_msgs' = Append(user_msgs, [execution_id |-> e, status |-> FAILED])
    /\ exec_calls' = [exec_calls EXCEPT ![e] = "done"]
    /\ UNCHANGED <<exec_frame, cancels, cancel_response, callbacks, analyses>>

\* cancel_execution, lines 476-500: find_one and the checks
cancel_execution_check(e, u) ==
    /\ cancels[e] = "idle"
    /\ IF executions[e] = <<>>
       THEN cancel_response' = 404 /\ UNCHANGED cancels
       ELSE IF executions[e][1].user_id # u
       THEN cancel_response' = 403 /\ UNCHANGED cancels
       ELSE IF executions[e][1].status \notin {PENDING, PROCESSING}
       THEN cancel_response' = 400 /\ UNCHANGED cancels
       ELSE cancels' = [cancels EXCEPT ![e] = "checked"] /\ UNCHANGED cancel_response
    /\ UNCHANGED <<exec_frame, executions, exec_calls, callbacks, analyses, user_msgs>>

\* cancel_execution, lines 502-526: the CANCELLED write and its notification
cancel_execution_write(e) ==
    /\ cancels[e] = "checked"
    /\ executions' = update_execution(e, [status |-> CANCELLED,
                        completed_at |-> utcnow,
                        error_message |-> "Cancelado por el usuario"])
    /\ user_msgs' = Append(user_msgs, [execution_id |-> e, status |-> CANCELLED])
    /\ cancels' = [cancels EXCEPT ![e] = "idle"]
    /\ cancel_response' = 204
    /\ UNCHANGED <<exec_frame, exec_calls, callbacks, analyses>>

\* TenderAnalysisHelper.save_analysis_to_tender: $push on the tender
save_analysis_to_tender(t, e, result) ==
    IF t \in tenders
    THEN [analyses EXCEPT ![t] = Append(@, [id |-> e, result |-> result,
                                            status |-> COMPLETED])]
    ELSE analyses

\* POST /n8n/webhooks/callback with payload {e, status, result, error_message}
n8n_webhook_callback(e, status, result, error_message) ==
    /\ callbacks < MaxCallbacks
    /\ callbacks' = callbacks + 1
    /\ IF executions[e] = <<>>
       THEN UNCHANGED <<executions, analyses, user_msgs>>
       ELSE /\ executions' = update_execution(e, [status |-> status,
                                completed_at |-> utcnow, result |-> result,
                                result_summary |-> Null,
                                error_message |-> error_message])
            /\ analyses' = IF status = COMPLETED /\ Truthy(result)
                           THEN save_analysis_to_tender(executions[e][1].tender_id, e, result)
                           ELSE analyses
            /\ user_msgs' = Append(user_msgs, [execution_id |-> e, status |-> status])
    /\ UNCHANGED <<exec_frame, exec_calls, cancels, cancel_response>>

NextExec ==
    \/ \E t \in TenderIds, u \in Users : execute_analysis(t, u)
    \/ \E e \in ExecIds, ok \in BOOLEAN : call_n8n_webhook_post(e, ok)
    \/ \E e \in ExecIds : call_n8n_webhook_processing(e)
    \/ \E e \in ExecIds : call_n8n_webhook_failed(e)
    \/ \E e \in ExecIds, u \in Users : cancel_execution_check(e, u)
    \/ \E e \in ExecIds : cancel_execution_write(e)
    \/ \E e \in ExecIds, st \in ProcedureStatus, r \in {Null, "r1"},
          m \in {Null, "err"} : n8n_webhook_callback(e, st, r, m)

SpecExec == Init /\ [][NextExec]_vars

\* ------------------------------------------- the two registries alone
\* Calls of a registry arrive from any caller, with any topic; a call of
\* send_to_analysis_id / send_to_user is taken one send_json at a time.
TopicUsers == {"u1", "u2"}

reg_core == <<tenders, analysis_results, result_docs, staticVars, nextId,
              request, response, tasks, audit_log, executions, exec_calls,
              cancels, cancel_response, callbacks, analyses>>
reg_frame == <<reg_core, sideVars>>

\* no send of either registry is in flight
RegIdle == publishing.pc \in {"idle", "raised"} /\ user_sending.pc = "idle"

\* number of send_to_analysis_id and send_to_user calls so far
PublishedCount ==
    Cardinality({p \in JobIds \X (1..(MaxPublish + 1)) : p[2] <= Len(sent[p[1]])})
        + Len(user_msgs)

\* ConnectionManager.send_to_analysis_id, lines 32-33: the membership test
\* and the copy list(self.active_connections[analysis_id])
send_to_analysis_id_call(message, a) ==
    /\ publishing.pc \in {"idle", "raised"}
    /\ sent' = [sent EXCEPT ![a] = Append(@, message)]
    /\ publishing' =
          IF a \in DOMAIN active_connections /\ active_connections[a] # <<>>
          THEN [pc |-> "sending", analysis_id |-> a, message |-> message,
                connections |-> active_connections[a], i |-> 1]
          ELSE [pc |-> "idle"]
    /\ UNCHANGED <<reg_frame, regVars, user_msgs, user_connections, user_keys, user_sending>>

\* lines 34-37: one iteration of the loop; send_json returns, or raises and
\* the except block removes the connection (list.remove raises ValueError
\* out of the call when the connection is no longer in the list).  A peer
\* that has gone receives nothing, whichever way its send_json ends.
send_json(raises) ==
    /\ publishing.pc = "sending"
    /\ LET a == publishing.analysis_id
           c == publishing.connections[publishing.i]
           next == IF publishing.i = Len(publishing.connections)
                   THEN [pc |-> "idle"]
                   ELSE [publishing EXCEPT !.i = @ + 1]
       IN IF ~raises
          THEN /\ inbox' = IF c \in closed THEN inbox
                            ELSE [inbox EXCEPT ![c] = Append(@, publishing.message)]
               /\ publishing' = next
               /\ UNCHANGED <<active_connections, closed>>
          ELSE IF c \in Range(active_connections[a])
          THEN /\ active_connections' = [active_connections EXCEPT ![a] =
                                            SelectSeq(@, LAMBDA x : x # c)]
               /\ closed' = closed \cup {c}
               /\ publishing' = next
               /\ UNCHANGED inbox
          ELSE /\ publishing' = [pc |-> "raised"]
               /\ UNCHANGED regVars
    /\ UNCHANGED <<reg_frame, sent, user_msgs, user_connections, user_keys, user_sending>>

\* WebSocketManager
\* the keys of a dict in its iteration order: a deleted key leaves, a new key
\* goes last
KeysAfter(keys, conns) ==
    LET kept == SelectSeq(keys, LAMBDA k : k \in DOMAIN conns)
        new == DOMAIN conns \ Range(keys)
    IN IF new = {} THEN kept ELSE Append(kept, CHOOSE k \in new : TRUE)

UserConnected == UNION {Range(user_connections[k]) : k \in DOMAIN user_connections}

\* manager.py lines 22-31
WebSocketManager_connect(w, u) ==
    /\ w \notin closed /\ w \notin UserConnected
    /\ user_connections' =
          [k \in DOMAIN user_connections \cup {u} |->
              IF k = u
              THEN (IF u \in DOMAIN user_connections
                    THEN Append(user_connections[u], w) ELSE <<w>>)
              ELSE user_connections[k]]
    /\ user_keys' = KeysAfter(user_keys, user_connections')
    /\ UNCHANGED <<reg_frame, regVars, sent, user_msgs, publishing, user_sending>>

\* the dict after disconnect(w, u), lines 38-47: the ValueError of remove is
\* swallowed and an entry left empty is deleted
WebSocketManager_removed(conns, w, u) ==
    IF u \notin DOMAIN conns \/ w \notin Range(conns[u])
    THEN conns
    ELSE IF SelectSeq(conns[u], LAMBDA x : x # w) = <<>>
    THEN [k \in DOMAIN conns \ {u} |-> conns[k]]
    ELSE [conns EXCEPT ![u] = SelectSeq(@, LAMBDA x : x # w)]

\* disconnect(w, u) called by the endpoint of w (routes.py lines 75-80); a
\* send_to_user in flight keeps iterating the list object it started on, which
\* stays empty once its entry has been deleted (orphan)
WebSocketManager_disconnect(w, u) ==
    /\ u \in DOMAIN user_connections
    /\ w \in Range(user_connections[u])
    /\ user_connections' = WebSocketManager_removed(user_connections, w, u)
    /\ user_keys' = KeysAfter(user_keys, user_connections')
    /\ closed' = closed \cup {w}
    /\ user_sending' =
          IF user_sending.pc = "sending" /\ u \notin DOMAIN user_connections'
          THEN (IF user_sending.user_id = u
                THEN [user_sending EXCEPT !.orphan = TRUE] ELSE user_sending)
          ELSE user_sending
    /\ UNCHANGED <<reg_frame, active_connections, inbox, sent, user_msgs, publishing>>

\* lines 68-69: self.disconnect(conn, user_id) for each conn of disconnected
RECURSIVE WebSocketManager_cleanup(_, _, _)
WebSocketManager_cleanup(conns, disconnected, u) ==
    IF disconnected = <<>> THEN conns
    ELSE WebSocketManager_cleanup(
            WebSocketManager_removed(conns, Head(disconnected), u),
            Tail(disconnected), u)

\* send_to_user, lines 53-60: the membership test and the first element of
\* the loop over the list itself (at_call remembers the list as it was then;
\* the code keeps no such copy and no action reads it)
send_to_user_call(u, message) ==
    /\ user_sending.pc = "idle"
    /\ user_msgs' = Append(user_msgs, message)
    /\ user_sending' =
          IF u \in DOMAIN user_connections /\ user_connections[u] # <<>>
          THEN [pc |-> "sending", user_id |-> u, message |-> message, i |-> 1,
                connection |-> user_connections[u][1], disconnected |-> <<>>,
                orphan |-> FALSE, at_call |-> user_connections[u]]
          ELSE [pc |-> "idle"]
    /\ UNCHANGED <<reg_frame, regVars, sent, publishing, user_connections, user_keys>>

\* lines 60-69: the send_json in flight returns or raises; the loop then takes
\* the next element of the list as it is now, or ends and cleans up
send_to_user_send_json(raises) ==
    /\ user_sending.pc = "sending"
    /\ LET u == user_sending.user_id
           w == user_sending.connection
           live == IF user_sending.orphan THEN <<>> ELSE user_connections[u]
           disconnected == IF raises THEN Append(user_sending.disconnected, w)
                           ELSE user_sending.disconnected
       IN /\ inbox' = IF raises \/ w \in closed THEN inbox
                      ELSE [inbox EXCEPT ![w] = Append(@, user_sending.message)]
          /\ IF user_sending.i < Len(live)
             THEN /\ user_sending' = [user_sending EXCEPT
                                         !.i = @ + 1,
                                         !.connection = live[user_sending.i + 1],
                                         !.disconnected = disconnected]
                  /\ UNCHANGED <<user_connections, user_keys, closed>>
             ELSE /\ user_sending' = [pc |-> "idle"]
                  /\ user_connections' =
                        WebSocketManager_cleanup(user_connections, disconnected, u)
                  /\ user_keys' = KeysAfter(user_keys, user_connections')
                  /\ closed' = closed \cup Range(disconnected)
    /\ UNCHANGED <<reg_frame, active_connections, sent, user_msgs, publishing>>

\* connect and disconnect run at any await of a send in flight; one
\* send_to_analysis_id or send_to_user is in flight at a time
NextRegistry ==
    \/ \E c \in Sockets, a \in JobIds : connect(c, a)
    \/ \E c \in Sockets, a \in JobIds : disconnect(c, a)
    \/ \E w \in UserSockets, u \in TopicUsers : WebSocketManager_connect(w, u)
    \/ \E w \in UserSockets, u \in TopicUsers : WebSocketManager_disconnect(w, u)
    \/ RegIdle /\ PublishedCount < MaxPublish /\ \E a \in JobIds :
          send_to_analysis_id_call([analysis_id |-> a, n |-> Len(sent[a]) + 1], a)
    \/ \E raises \in BOOLEAN : send_json(raises)
    \/ RegIdle /\ PublishedCount < MaxPublish /\ \E u \in TopicUsers :
          send_to_user_call(u, [user_id |-> u, n |-> Len(user_msgs) + 1])
    \/ \E raises \in BOOLEAN : send_to_user_send_json(raises)

SpecRegistry == Init /\ [][NextRegistry]_vars

\* a send_json whose peer stopped reading: nothing bounds the await of line
\* 35, the call stays suspended in it
send_json_pending ==
    /\ publishing.pc = "sending"
    /\ publishing' = [publishing EXCEPT !.pc = "blocked"]
    /\ UNCHANGED <<reg_frame, regVars, sent, user_msgs, user_connections, user_keys, user_sending>>

NextSlow ==
    \/ \E c \in Sockets, a \in JobIds : connect(c, a)
    \/ \E c \in Sockets, a \in JobIds : disconnect(c, a)
    \/ RegIdle /\ PublishedCount < MaxPublish /\ \E a \in JobIds :
          send_to_analysis_id_call([analysis_id |-> a, n |-> Len(sent[a]) + 1], a)
    \/ \E raises \in BOOLEAN : send_json(raises)
    \/ send_json_pending

\* the event loop resumes every send_json that completes
SpecSlow == Init /\ [][NextSlow]_vars /\ WF_vars(\E raises \in BOOLEAN : send_json(raises))

\* ------------------------------------------------------------ broadcast
\* Each broadcast is taken whole, with send_text / send_json raising on the
\* websockets of F.
bc_frame == <<reg_core, renameVars, authVars, docVars, wsVars, sent, user_msgs, publishing,
              user_sending>>

\* ConnectionManager.broadcast, lines 21-29: every connection of every list
\* is sent to; the ones that raise are collected and nothing removes them
ConnectionManager_broadcast(message, F) ==
    /\ inbox' = [c \in DOMAIN inbox |->
                    IF c \in Connected \ F THEN Append(inbox[c], message)
                    ELSE inbox[c]]
    /\ broadcast_calls' = Append(broadcast_calls,
                                 [manager |-> "ConnectionManager", message |-> message,
                                  failed |-> F \cap Connected, raised |-> FALSE])
    /\ UNCHANGED <<bc_frame, active_connections, closed, user_connections, user_keys>>

\* WebSocketManager.broadcast, lines 75-76, from the key Head(keys) on:
\* send_to_user for each key in dict order; a send_to_user whose cleanup
\* deleted its key changed the size of the dict under the iterator, and the
\* next step of the for statement raises RuntimeError
RECURSIVE WebSocketManager_broadcast_from(_, _, _, _, _)
WebSocketManager_broadcast_from(keys, conns, ib, message, F) ==
    IF keys = <<>>
    THEN [conns |-> conns, inbox |-> ib, raised |-> FALSE]
    ELSE LET u == Head(keys)
             list == conns[u]
             ib2 == [w \in DOMAIN ib |->
                        IF w \in Range(list) \ F THEN Append(ib[w], message)
                        ELSE ib[w]]
             conns2 == WebSocketManager_cleanup(
                           conns, SelectSeq(list, LAMBDA w : w \in F), u)
         IN IF u \notin DOMAIN conns2
            THEN [conns |-> conns2, inbox |-> ib2, raised |-> TRUE]
            ELSE WebSocketManager_broadcast_from(Tail(keys), conns2, ib2, message, F)

WebSocketManager_broadcast(message, F) ==
    LET end == WebSocketManager_broadcast_from(user_keys, user_connections,
                                               inbox, message, F)
    IN /\ inbox' = end.inbox
       /\ user_connections' = end.conns
       /\ user_keys' = SelectSeq(user_keys, LAMBDA k : k \in DOMAIN end.conns)
       /\ closed' = closed \cup (UserConnected \ UNION {Range(end.conns[k]) : k \in DOMAIN end.conns})
       /\ broadcast_calls' = Append(broadcast_calls,
                                    [manager |-> "WebSocketManager", message |-> message,
                                     failed |-> F \cap UserConnected, raised |-> end.raised])
       /\ UNCHANGED <<bc_frame, active_connections>>

NextBroadcast ==
    \/ \E c \in Sockets, a \in JobIds : connect(c, a)
    \/ \E c \in Sockets, a \in JobIds : disconnect(c, a)
    \/ \E w \in UserSockets, u \in TopicUsers : WebSocketManager_connect(w, u)
    \/ \E w \in UserSockets, u \in TopicUsers : WebSocketManager_disconnect(w, u)
    \/ Len(broadcast_calls) < MaxPublish /\ \E F \in SUBSET Sockets :
          ConnectionManager_broadcast([broadcast |-> Len(broadcast_calls) + 1], F)
    \/ Len(broadcast_calls) < MaxPublish /\ \E F \in SUBSET UserSockets :
          WebSocketManager_broadcast([broadcast |-> Len(broadcast_calls) + 1], F)

SpecBroadcast == Init /\ [][NextBroadcast]_vars

\* --------------------------------------------------- update_analysis_name
NameInputs == {"n1", "n2"}

\* lines 767-770: update_one({"analysis_results.id": a}, {$set: {"analysis_results.$.name": n}})
rename_embedded(a, new_name) ==
    [t \in TenderIds |->
        [i \in 1..Len(analysis_results[t]) |->
            IF analysis_results[t][i].id = a
               /\ \A k \in 1..(i-1) : analysis_results[t][k].id # a
            THEN [analysis_results[t][i] EXCEPT !.name = new_name]
            ELSE analysis_results[t][i]]]

\* update_analysis_name(a, new_name); raises tells whether the update_one of
\* db.analysis_results (lines 775-778) raises, which nothing catches
update_analysis_name(a, new_name, raises) ==
    /\ Len(renames) < MaxRenames
    /\ analysis_results' = rename_embedded(a, new_name)
    /\ doc_names' = IF ~raises /\ result_docs[a] # NoDoc
                    THEN [doc_names EXCEPT ![a] = new_name]
                    ELSE doc_names
    /\ renames' = Append(renames,
                         [analysis_id |-> a, new_name |-> new_name,
                          outcome |-> IF raises THEN "raised"
                                      ELSE IF analysis_results' # analysis_results
                                      THEN "True" ELSE "False"])
    /\ UNCHANGED <<tenders, result_docs, staticVars, broadcast_calls, authVars, docVars, wsVars,
                   pubVars, nextId, request, response, tasks, regVars, sent, audit_log, execVars>>

NextRename ==
    \/ \E t \in TenderIds : SubmitCheck(t, "a1", "u2")
    \/ SubmitCreate
    \/ \E a \in JobIds : Dispatcher(a)
    \/ \E a \in JobIds : WorkflowWritesDoc(a, "d1")
    \/ \E a \in JobIds, n \in NameInputs, raises \in BOOLEAN :
          update_analysis_name(a, n, raises)

SpecRename == Init /\ [][NextRename]_vars

\* ------------------------------------------------------------ auth tokens
\* A token is the jti create_token gave it; every token below carries a
\* valid signature, a sub, a user_id and an exp in the future.
auth_frame == <<tenderVars, execVars, pubVars, broadcast_calls, renameVars, docVars, wsVars>>

Jtis == 1..Len(tokens)

\* create_access_token and create_refresh_token for one user, as login and
\* refresh call them
TokenPair == <<[type |-> "access"], [type |-> "refresh"]>>

\* POST /auth/login
login ==
    /\ Len(tokens) + 2 <= MaxTokens
    /\ tokens' = tokens \o TokenPair
    /\ auth_response' = [endpoint |-> "login", code |-> 200,
                         access |-> Len(tokens) + 1, refresh |-> Len(tokens) + 2]
    /\ UNCHANGED <<auth_frame, blacklist, refreshing, refresh_uses>>

is_token_blacklisted(jti) == jti \in blacklist

\* get_current_user, lines 165-180: True when the token is accepted
get_current_user(token) ==
    tokens[token].type = "access" /\ ~is_token_blacklisted(token)

\* a route behind Depends(get_current_active_user), called with the token
protected_endpoint(token) ==
    /\ auth_response' = [endpoint |-> "protected", jti |-> token,
                         code |-> IF get_current_user(token) THEN 200 ELSE 401]
    /\ UNCHANGED <<auth_frame, tokens, blacklist, refreshing, refresh_uses>>

\* refresh_access_token, lines 343-358: up to the blacklist lookup
refresh_check(r, token) ==
    /\ refreshing[r].pc = "idle"
    /\ IF tokens[token].type # "refresh" \/ is_token_blacklisted(token)
       THEN /\ auth_response' = [endpoint |-> "refresh", jti |-> token, code |-> 401]
            /\ UNCHANGED refreshing
       ELSE /\ refreshing' = [refreshing EXCEPT ![r] = [pc |-> "checked", jti |-> token]]
            /\ UNCHANGED auth_response
    /\ UNCHANGED <<auth_frame, tokens, blacklist, refresh_uses>>

\* lines 360-371: get_user_by_email, add_token_to_blacklist, the new pair
refresh_rotate(r) ==
    /\ refreshing[r].pc = "checked"
    /\ Len(tokens) + 2 <= MaxTokens
    /\ blacklist' = blacklist \cup {refreshing[r].jti}
    /\ tokens' = tokens \o TokenPair
    /\ refresh_uses' = [refresh_uses EXCEPT ![refreshing[r].jti] = @ + 1]
    /\ auth_response' = [endpoint |-> "refresh", jti |-> refreshing[r].jti, code |-> 200,
                         access |-> Len(tokens) + 1, refresh |-> Len(tokens) + 2]
    /\ refreshing' = [refreshing EXCEPT ![r] = [pc |-> "idle"]]
    /\ UNCHANGED auth_frame

\* logout, lines 374-406, with the bearer token and the refresh_token cookie
\* (0 when the request carries no cookie)
logout(token, cookie) ==
    /\ blacklist' = blacklist \cup {token} \cup (IF cookie = 0 THEN {} ELSE {cookie})
    /\ auth_response' = [endpoint |-> "logout", jti |-> token, code |-> 200]
    /\ UNCHANGED <<auth_frame, tokens, refreshing, refresh_uses>>

\* websocket_endpoint / get_user_from_token (websocket/routes.py lines
\* 15-26, 45-54): the token is decoded and its user_id read, nothing else
websocket_endpoint(token) ==
    /\ auth_response' = [endpoint |-> "websocket", jti |-> token, code |-> 101]
    /\ UNCHANGED <<auth_frame, tokens, blacklist, refreshing, refresh_uses>>

NextAuth ==
    \/ login
    \/ \E t \in Jtis : protected_endpoint(t)
    \/ \E r \in 1..MaxRefreshes, t \in Jtis : refresh_check(r, t)
    \/ \E r \in 1..MaxRefreshes : refresh_rotate(r)
    \/ \E t \in Jtis, c \in Jtis \cup {0} :
          tokens[t].type = "access" /\ (c # 0 => tokens[c].type = "refresh") /\ logout(t, c)
    \/ \E t \in Jtis : websocket_endpoint(t)

SpecAuth == Init /\ [][NextAuth]_vars

\* ------------------------------------------------ documents of a tender
doc_frame == <<tenderVars, execVars, pubVars, broadcast_calls, renameVars, authVars, wsVars>>

\* add_documents_to_existing_tender, lines 408-432: the n files are stored
\* in db.tender_files
add_documents_upload(t, n) ==
    /\ adding.pc = "idle"
    /\ nextFile + n - 1 <= MaxFiles
    /\ tender_files' = tender_files \cup (nextFile..(nextFile + n - 1))
    /\ nextFile' = nextFile + n
    /\ adding' = [pc |-> "uploaded", tender_id |-> t,
                  files |-> [i \in 1..n |-> nextFile + i - 1]]
    /\ UNCHANGED <<doc_frame, documents, deleting, doc_response>>

\* lines 434-477: find_one_and_update with the $expr filter on the size, and
\* the clean-up when it matched nothing
add_documents_update ==
    /\ adding.pc = "uploaded"
    /\ LET t == adding.tender_id
           matched == t \in tenders /\ Len(documents[t]) + Len(adding.files) <= 5
       IN IF matched
          THEN /\ documents' = [documents EXCEPT ![t] = @ \o adding.files]
               /\ doc_response' = [call |-> "add", code |-> 200]
               /\ UNCHANGED tender_files
          ELSE /\ tender_files' = tender_files \ Range(adding.files)
               /\ doc_response' = [call |-> "add",
                                   code |-> IF t \in tenders THEN 400 ELSE 404]
               /\ UNCHANGED documents
    /\ adding' = [pc |-> "idle"]
    /\ UNCHANGED <<doc_frame, nextFile, deleting>>

\* delete_document, lines 501-513: get_tender_by_id and the test on the
\* number of documents it returned
delete_document_check(r, t, d) ==
    /\ deleting[r].pc = "idle"
    /\ IF t \notin tenders
       THEN /\ doc_response' = [call |-> "delete", code |-> 404]
            /\ UNCHANGED deleting
       ELSE IF Len(documents[t]) <= 1
       THEN /\ doc_response' = [call |-> "delete", code |-> 400]
            /\ UNCHANGED deleting
       ELSE /\ deleting' = [deleting EXCEPT ![r] =
                               [pc |-> "checked", tender_id |-> t, document_id |-> d]]
            /\ UNCHANGED doc_response
    /\ UNCHANGED <<doc_frame, documents, tender_files, nextFile, adding>>

\* lines 515-536: delete_one of the file, then the $pull
delete_document_pull(r) ==
    /\ deleting[r].pc = "checked"
    /\ tender_files' = tender_files \ {deleting[r].document_id}
    /\ documents' = [documents EXCEPT ![deleting[r].tender_id] =
                        SelectSeq(@, LAMBDA x : x # deleting[r].document_id)]
    /\ doc_response' = [call |-> "delete", code |-> 200]
    /\ deleting' = [deleting EXCEPT ![r] = [pc |-> "idle"]]
    /\ UNCHANGED <<doc_frame, nextFile, adding>>

NextDocuments ==
    \/ \E n \in 1..2 : add_documents_upload("t1", n)
    \/ add_documents_update
    \/ \E r \in 1..MaxDeletes, d \in 1..MaxFiles : delete_document_check(r, "t1", d)
    \/ \E r \in 1..MaxDeletes : delete_document_pull(r)

SpecDocuments == Init /\ [][NextDocuments]_vars

\* ------------------------------------------------- workspace membership
\* One workspace id is followed; calls are taken one at a time.
ws_frame == <<tenderVars, execVars, pubVars, broadcast_calls, renameVars, authVars, docVars>>

WorkspaceRole == {"OWNER", "ADMIN", "EDITOR", "VIEWER"}

\* the collaborators list of WorkspaceCreate: none or one entry
Collaborators == {<<>>} \cup {<<[user |-> u, role |-> r]>> : u \in Users, r \in WorkspaceRole}

\* POST /workspaces/: the Workspace row, the OWNER member and one member
\* per collaborator that is not the creator
create_workspace(current_user, collaborators) ==
    /\ workspace = <<>>
    /\ workspace' = <<[owner_id |-> current_user]>>
    /\ workspace_members' =
          [u \in Users |->
              IF u = current_user THEN "OWNER"
              ELSE IF \E i \in 1..Len(collaborators) : collaborators[i].user = u
              THEN collaborators[CHOOSE i \in 1..Len(collaborators) :
                                     collaborators[i].user = u].role
              ELSE Null]
    /\ ws_response' = [op |-> "create", code |-> 201, user |-> current_user]
    /\ UNCHANGED ws_frame

\* DELETE /workspaces/{id}; the member rows go with the workspace (cascade)
delete_workspace(current_user) ==
    /\ IF workspace = <<>> \/ workspace[1].owner_id # current_user
       THEN /\ ws_response' = [op |-> "delete", code |-> 403, user |-> current_user]
            /\ UNCHANGED <<workspace, workspace_members>>
       ELSE /\ workspace' = <<>>
            /\ workspace_members' = [u \in Users |-> Null]
            /\ ws_response' = [op |-> "delete", code |-> 204, user |-> current_user]
    /\ UNCHANGED ws_frame

\* POST /workspaces/{id}/members
add_workspace_member(current_user, user_to_add, role) ==
    /\ IF workspace_members[current_user] \notin {"OWNER", "ADMIN"}
       THEN /\ ws_response' = [op |-> "add", code |-> 403, user |-> user_to_add]
            /\ UNCHANGED workspace_members
       ELSE IF workspace_members[user_to_add] # Null
       THEN /\ ws_response' = [op |-> "add", code |-> 400, user |-> user_to_add]
            /\ UNCHANGED workspace_members
       ELSE /\ workspace_members' = [workspace_members EXCEPT ![user_to_add] = role]
            /\ ws_response' = [op |-> "add", code |-> 201, user |-> user_to_add]
    /\ UNCHANGED <<ws_frame, workspace>>

\* PUT /workspaces/{id}/members/{user_id}
update_workspace_member(current_user, user_id, role) ==
    /\ IF workspace_members[current_user] \notin {"OWNER", "ADMIN"}
       THEN /\ ws_response' = [op |-> "update", code |-> 403, user |-> user_id]
            /\ UNCHANGED workspace_members
       ELSE IF workspace_members[user_id] = Null
       THEN /\ ws_response' = [op |-> "update", code |-> 404, user |-> user_id]
            /\ UNCHANGED workspace_members
       ELSE IF /\ workspace_members[current_user] = "ADMIN"
               /\ \/ workspace_members[user_id] \in {"OWNER", "ADMIN"}
                  \/ role \in {"OWNER", "ADMIN"}
       THEN /\ ws_response' = [op |-> "update", code |-> 403, user |-> user_id]
            /\ UNCHANGED workspace_members
       ELSE /\ workspace_members' = [workspace_members EXCEPT ![user_id] = role]
            /\ ws_response' = [op |-> "update", code |-> 200, user |-> user_id]
    /\ UNCHANGED <<ws_frame, workspace>>

\* DELETE /workspaces/{id}/members/{user_id}
remove_workspace_member(current_user, user_id) ==
    /\ IF workspace_members[current_user] \notin {"OWNER", "ADMIN"}
       THEN /\ ws_response' = [op |-> "remove", code |-> 403, user |-> user_id]
            /\ UNCHANGED workspace_members
       ELSE IF workspace_members[user_id] = Null
       THEN /\ ws_response' = [op |-> "remove", code |-> 404, user |-> user_id]
            /\ UNCHANGED workspace_members
       ELSE IF workspace_members[user_id] = "OWNER"
       THEN /\ ws_response' = [op |-> "remove", code |-> 400, user |-> user_id]
            /\ UNCHANGED workspace_members
       ELSE /\ workspace_members' = [workspace_members EXCEPT ![user_id] = Null]
            /\ ws_response' = [op |-> "remove", code |-> 204, user |-> user_id]
    /\ UNCHANGED <<ws_frame, workspace>>

NextWorkspace ==
    \/ \E u \in Users, c \in Collaborators : create_workspace(u, c)
    \/ \E u \in Users : delete_workspace(u)
    \/ \E u \in Users, x \in Users, r \in WorkspaceRole : add_workspace_member(u, x, r)
    \/ \E u \in Users, x \in Users, r \in WorkspaceRole : update_workspace_member(u, x, r)
    \/ \E u \in Users, x \in Users : remove_workspace_member(u, x)

SpecWorkspace == Init /\ [][NextWorkspace]_vars

\* ======================================================================
\* Claims
\* ======================================================================
TaskEnded(a) == tasks[a].pc \in {"done", "crashed"}
JobPresent(a) == get_analysis_by_id(tasks[a].tender_id, a) # <<>>
Job(a) == get_analysis_by_id(tasks[a].tender_id, a)[1]

\* C1: while a job for (parent, automation) is PENDING or PROCESSING, a
\* second submit for the pair is answered 409 Conflict and creates no job;
\* with no live job for the pair on an existing parent, submit is accepted
\* (202) and appends one job.
C1_DuplicateRejected ==
    [][(request.pc = "checked" /\ request'.pc = "idle") =>
          IF check_for_existing_analysis(request.tender_id, request.automation_id)
          THEN response'.code = 409 /\ analysis_results' = analysis_results
          ELSE request.tender_id \in tenders =>
                  /\ response'.code = 202
                  /\ Len(analysis_results'[request.tender_id])
                        = Len(analysis_results[request.tender_id]) + 1]_vars

\* C2: every job's status is one of the five statuses, and a job whose
\* status is COMPLETED, FAILED or CANCELLED is never changed by a later step
\* (an embedded analysis may only disappear with its tender).
C2_StatusDomain ==
    /\ \A t \in TenderIds : \A r \in Range(analysis_results[t]) :
          r.status \in ProcedureStatus
    /\ \A e \in ExecIds : executions[e] # <<>> =>
          executions[e][1].status \in ProcedureStatus

C2_TerminalFrozen ==
    [](C2_StatusDomain) /\
    [][/\ \A t \in TenderIds : \A i \in 1..Len(analysis_results[t]) :
             analysis_results[t][i].status \in {COMPLETED, FAILED, CANCELLED} =>
                \/ t \notin tenders'
                \/ /\ i <= Len(analysis_results'[t])
                   /\ analysis_results'[t][i] = analysis_results[t][i]
       /\ \A e \in ExecIds :
             (executions[e] # <<>> /\
              executions[e][1].status \in {COMPLETED, FAILED, CANCELLED}) =>
                executions'[e] = executions[e]]_vars

\* C3: a deleted tender holds no job, and every dispatcher step taken while
\* its tender is absent leaves the set of tenders and every embedded
\* analysis_results array unchanged; the update_analysis_result calls among
\* those steps return normally (the task goes on, it does not raise).
C3_NoResurrection ==
    [](\A t \in TenderIds : t \notin tenders => analysis_results[t] = <<>>) /\
    [][\A a \in JobIds :
          (/\ tasks[a].pc \notin {"unborn", "done", "crashed"}
           /\ tasks[a].tender_id \notin tenders
           /\ tasks'[a] # tasks[a]) =>
              /\ tenders' = tenders
              /\ analysis_results' = analysis_results
              /\ tasks[a].pc \in {"mark", "complete", "http_failed", "exception"}
                    => tasks'[a].pc # "crashed"]_vars

\* a dispatcher that ran from its first write to its notification with its
\* tender deleted
C3_Witness ==
    \E a \in JobIds :
        /\ tasks[a].pc = "done"
        /\ ~tasks[a].marked
        /\ tasks[a].tender_id \notin tenders
        /\ analysis_results[tasks[a].tender_id] = <<>>
        /\ Len(sent[a]) = 1

\* C4: when a dispatcher ends while its tender is deleted, exactly one
\* notification was published on the job's topic, of FAILED kind, and every
\* websocket connected to that topic holds exactly that notification.
C4_OneAbortNotification ==
    [][\A a \in JobIds :
          (/\ ~TaskEnded(a)
           /\ tasks'[a].pc \in {"done", "crashed"}
           /\ tasks[a].tender_id \notin tenders) =>
              /\ Len(sent'[a]) = 1
              /\ sent'[a][1].status = "FAILED"
              /\ a \in DOMAIN active_connections' =>
                    \A c \in Range(active_connections'[a]) : inbox'[c] = sent'[a]]_vars

\* C5: after the handler of an HTTP failure ran with the tender present, the
\* job is FAILED, carries an error_message and has pending_since cleared.
C5_FailedClearsPending ==
    \A a \in JobIds :
        (/\ tasks[a].error_message = "automation_error"
         /\ JobPresent(a)) =>
            /\ Job(a).status = FAILED
            /\ Job(a).error_message # Null
            /\ Job(a).pending_since = NoTime

\* C6: a dispatcher whose HTTP call failed has published nothing until its
\* handler's send, and when it ends it has published exactly one message on
\* the topic of its analysis id, {status: FAILED, error}; the analysis id
\* submit answers with is the id of a launched dispatcher and of the job.
C6_OneFailedNotification ==
    /\ \A a \in JobIds :
          tasks[a].error_message = "automation_error" =>
              IF tasks[a].pc = "done"
              THEN sent[a] = <<[status |-> "FAILED", error |-> "automation_error"]>>
              ELSE sent[a] = <<>>
    /\ response.code = 202 =>
          /\ tasks[response.analysis_id].pc # "unborn"
          /\ \A t \in TenderIds : \A r \in Range(analysis_results[t]) :
                r.id = response.analysis_id => tasks[r.id].tender_id = t

C6_Witness ==
    \E a \in JobIds :
        /\ tasks[a].pc = "done"
        /\ tasks[a].error_message = "automation_error"
        /\ response.code = 202 /\ response.analysis_id = a
        /\ sent[a] = <<[status |-> "FAILED", error |-> "automation_error"]>>

\* C7: once the result document was found, nothing is published before the
\* COMPLETED write; the job read back is COMPLETED and holds the payload of
\* the document; and the dispatcher ends having published exactly one
\* message, {status: COMPLETED, result: the job with that payload}.
C7_CompletedThenNotified ==
    \A a \in JobIds :
        /\ tasks[a].pc \in {"complete", "audit", "readback", "notify_completed"}
              => sent[a] = <<>>
        /\ tasks[a].pc = "notify_completed" =>
              /\ tasks[a].result[1].status = COMPLETED
              /\ tasks[a].result[1].data = tasks[a].verified
        /\ (TaskEnded(a) /\ tasks[a].error_message = Null) =>
              /\ Len(sent[a]) = 1
              /\ sent[a][1].status = "COMPLETED"
              /\ sent[a][1].result.status = COMPLETED
              /\ sent[a][1].result.data = result_docs[a]

\* C8: the polling loop reads at most max_retries times; when a read finds
\* the document, the job (if its tender still holds it) becomes COMPLETED
\* with the document's data; when every read misses, the job becomes FAILED
\* with the timeout message and one FAILED notification is published.
C8_PollingOutcome ==
    \A a \in JobIds :
        /\ tasks[a].retries < max_retries
        /\ (tasks[a].pc = "audit" /\ JobPresent(a)) =>
              /\ Job(a).status = COMPLETED
              /\ Job(a).data = tasks[a].verified
        /\ (tasks[a].pc = "done" /\ tasks[a].error_message = "timeout") =>
              /\ sent[a] = <<[status |-> "FAILED", error |-> "timeout"]>>
              /\ JobPresent(a) =>
                    Job(a).status = FAILED /\ Job(a).error_message = "timeout"

\* C9: a dispatcher that marked its job PROCESSING and has ended (returned
\* or raised) has called send_to_analysis_id at least once.
C9_NotifiedBeforeEnd ==
    \A a \in JobIds :
        (TaskEnded(a) /\ tasks[a].marked) => Len(sent[a]) >= 1

\* C10: an embedded job has data if and only if its status is COMPLETED.
C10_ResultIffCompleted ==
    \A t \in TenderIds : \A r \in Range(analysis_results[t]) :
        (r.data # Null) <=> (r.status = COMPLETED)

\* C11: a job carries an error_message only while its status is FAILED,
\* for the jobs embedded in tenders and for the execution records alike.
C11_ErrorOnlyIfFailed ==
    /\ \A t \in TenderIds : \A r \in Range(analysis_results[t]) :
          r.error_message # Null => r.status = FAILED
    /\ \A e \in ExecIds : executions[e] # <<>> =>
          (executions[e][1].error_message # Null => executions[e][1].status = FAILED)

\* C12: a placeholder is created PENDING with pending_since set to its
\* creation time, and a job that is neither PENDING nor PROCESSING has
\* pending_since None.
C12_PendingSinceCleared ==
    [](\A t \in TenderIds : \A r \in Range(analysis_results[t]) :
          r.status \notin {PENDING, PROCESSING} => r.pending_since = NoTime) /\
    [][\A t \in TenderIds :
          Len(analysis_results'[t]) > Len(analysis_results[t]) =>
              LET r == analysis_results'[t][Len(analysis_results'[t])]
              IN r.status = PENDING /\ r.pending_since = r.created_at
                 /\ r.pending_since # NoTime]_vars

C14_SubmitRejected ==
    [][\A t \in TenderIds, a \in AutomationInputs, u \in Users :
          SubmitCheck(t, a, u) =>
             LET allowed == members[u] \in {"OWNER", "ADMIN", "EDITOR"}
             IN /\ t \notin tenders => response'.code = 404
                /\ (t \in tenders /\ ~allowed) => response'.code = 403
                /\ (t \in tenders /\ allowed /\ a \notin automations)
                      => response'.code = 404
                /\ (t \notin tenders \/ ~allowed \/ a \notin automations) =>
                      /\ response'.code \in {403, 404}
                      /\ request'.pc = "idle"
                      /\ analysis_results' = analysis_results
                      /\ nextId' = nextId
                      /\ tasks' = tasks]_vars

\* a VIEWER was refused on an existing tender while nothing was ever created
C14_Witness ==
    /\ response.code = 403
    /\ request.pc = "idle"
    /\ tenders = TenderIds
    /\ nextId = 1
    /\ \A t \in TenderIds : analysis_results[t] = <<>>
    /\ \A j \in JobIds : tasks[j].pc = "unborn"

\* C15: the write of cancel_execution lands only on an execution that is
\* PENDING or PROCESSING at that moment and leaves it CANCELLED with answer
\* 204; on an execution that is COMPLETED, FAILED or CANCELLED by then the
\* cancel changes nothing and is not answered 204.
C15_CancelOnlyLive ==
    [][\A e \in ExecIds :
          (cancels[e] = "checked" /\ cancels'[e] = "idle") =>
             IF executions[e][1].status \in {PENDING, PROCESSING}
             THEN executions'[e][1].status = CANCELLED /\ cancel_response' = 204
             ELSE executions'[e] = executions[e] /\ cancel_response' # 204]_vars

\* C16: when the job was written COMPLETED with its data and the audit
\* write that follows raised (control has left the audit call and no audit
\* row exists), the job is still COMPLETED, and a dispatcher that returned
\* has published exactly one message, of status COMPLETED.
C16_AuditFaultHarmless ==
    \A a \in JobIds :
        (/\ tasks[a].pc \notin {"unborn", "mark", "post", "poll", "complete", "audit"}
         /\ a \notin audit_log
         /\ JobPresent(a)
         /\ Job(a).data # Null) =>
            /\ Job(a).status = COMPLETED
            /\ tasks[a].pc = "done" =>
                  Len(sent[a]) = 1 /\ sent[a][1].status = "COMPLETED"

\* C17: a publish on a topic hands the message, once, to every channel that
\* was subscribed to the topic when the call was made (and is still
\* subscribed when the call ends) and to no other channel: not to a channel
\* of another topic, not to a channel unsubscribed before the call, not to a
\* channel subscribed after it.
C17_PublishDelivers ==
    [][/\ \A c \in Sockets :
             inbox'[c] # inbox[c] =>
                 /\ publishing.pc = "sending"
                 /\ c \in Range(publishing.connections)
                 /\ c \notin closed
                 /\ publishing.message \notin Range(inbox[c])
                 /\ inbox'[c] = Append(inbox[c], publishing.message)
       /\ (publishing.pc = "sending" /\ publishing'.pc # "sending") =>
             \A c \in Range(publishing.connections)
                       \cap Range(active_connections'[publishing.analysis_id]) :
                 publishing.message \in Range(inbox'[c])
       /\ \A w \in UserSockets :
             inbox'[w] # inbox[w] =>
                 /\ user_sending.pc = "sending"
                 /\ w \in Range(user_sending.at_call)
                 /\ w \notin closed
                 /\ user_sending.message \notin Range(inbox[w])
                 /\ inbox'[w] = Append(inbox[w], user_sending.message)
       /\ (user_sending.pc = "sending" /\ user_sending'.pc # "sending") =>
             \A w \in Range(user_sending.at_call) \cap UserConnected' :
                 user_sending.message \in Range(inbox'[w])]_vars

\* C18: while a publish runs, a channel whose send fails is taken out of the
\* topic (and only that channel), the publish goes on with the channels that
\* follow and serves every other channel of the topic, and no error leaves
\* the call.
C18_FailedSendRemoved ==
    [][/\ publishing.pc = "sending" =>
             /\ publishing'.pc # "raised"
             /\ (publishing' # publishing /\ publishing.i < Len(publishing.connections)) =>
                   /\ publishing'.pc = "sending"
                   /\ publishing'.i = publishing.i + 1
             /\ (publishing' # publishing
                 /\ active_connections' # active_connections) =>
                   active_connections' =
                       [active_connections EXCEPT ![publishing.analysis_id] =
                           SelectSeq(@, LAMBDA x :
                               x # publishing.connections[publishing.i])]
             /\ publishing'.pc = "idle" =>
                   \A c \in Range(publishing.connections)
                             \cap Range(active_connections'[publishing.analysis_id]) :
                       publishing.message \in Range(inbox'[c])
       /\ (user_sending.pc = "sending" /\ user_sending'.pc = "idle") =>
             /\ Range(user_sending.disconnected) \cap UserConnected' = {}
             /\ \A w \in Range(user_sending.at_call) \cap UserConnected' :
                   user_sending.message \in Range(inbox'[w])]_vars

\* C19: in every state reached by connects, disconnects and sends, neither
\* registry holds a topic whose list of channels is empty.
C19_NoEmptyTopic ==
    /\ \A a \in DOMAIN active_connections : active_connections[a] # <<>>
    /\ \A u \in DOMAIN user_connections : user_connections[u] # <<>>

\* C20: every send_to_analysis_id that has started comes to an end, also
\* when the send to one of its channels never completes.
C20_PublishTerminates ==
    (publishing.pc = "sending") ~> (publishing.pc \in {"idle", "raised"})

\* C21: a broadcast reaches every channel of every topic of its registry
\* whose send does not fail, takes every channel whose send fails out of the
\* registry, and returns without raising, also when a topic is left empty.
C21_BroadcastIsPublishAll ==
    [][Len(broadcast_calls') > Len(broadcast_calls) =>
          LET b == broadcast_calls'[Len(broadcast_calls')]
              before == IF b.manager = "ConnectionManager" THEN Connected
                        ELSE UserConnected
              after == IF b.manager = "ConnectionManager" THEN Connected'
                       ELSE UserConnected'
          IN /\ ~b.raised
             /\ \A c \in before \ b.failed : b.message \in Range(inbox'[c])
             /\ after = before \ b.failed]_vars

\* C22: every update_analysis_result of a dispatcher changes exactly the
\* embedded job with its analysis id in its tender, keeps that job's id and
\* place, and leaves every other job of every tender as it was; it changes
\* nothing, and returns False, exactly when the tender or the job is absent.
C22_UpdateFrame ==
    [][\A a \in JobIds :
          (tasks[a].pc \in {"mark", "complete", "http_failed", "exception"}
           /\ tasks'[a] # tasks[a]) =>
             LET t == tasks[a].tender_id
                 matched == t \in tenders /\ \E r \in Range(analysis_results[t]) : r.id = a
             IN /\ \A t2 \in TenderIds :
                      /\ Len(analysis_results'[t2]) = Len(analysis_results[t2])
                      /\ \A i \in 1..Len(analysis_results[t2]) :
                            /\ analysis_results'[t2][i].id = analysis_results[t2][i].id
                            /\ analysis_results'[t2][i] # analysis_results[t2][i]
                                  <=> (matched /\ t2 = t /\ analysis_results[t2][i].id = a)
                /\ tasks[a].pc = "mark" => (tasks'[a].marked <=> matched)
                /\ tenders' = tenders]_vars

\* job 2 of a tender was marked PROCESSING next to job 1 of the same tender,
\* which had ended
C22_Witness ==
    \E t \in tenders :
        /\ Len(analysis_results[t]) = 2
        /\ analysis_results[t][1].status \in {COMPLETED, FAILED}
        /\ analysis_results[t][2].status = PROCESSING
        /\ analysis_results[t][2].id = 2
        /\ tasks[2].marked

\* C23: a submission that reaches create_placeholder_analysis when its tender
\* is gone appends no job to any tender, launches no dispatcher and is
\* answered 404.
C23_AbsentParentNotFound ==
    [][(request.pc = "checked" /\ request'.pc = "idle"
        /\ request.tender_id \notin tenders) =>
          /\ analysis_results' = analysis_results
          /\ tasks' = tasks
          /\ response'.code = 404]_vars

\* C24: update_analysis_name sets the name of the embedded job with the given
\* id and returns True exactly when such a job exists; when the update of the
\* document in db.analysis_results fails, the call still returns as it would
\* have and the embedded name stays renamed.
C24_RenameBestEffort ==
    [][Len(renames') > Len(renames) =>
          LET c == renames'[Len(renames')]
              exists == \E t \in tenders : \E r \in Range(analysis_results[t]) :
                            r.id = c.analysis_id
          IN /\ c.outcome = (IF exists THEN "True" ELSE "False")
             /\ \A t \in tenders : \A r \in Range(analysis_results'[t]) :
                   r.id = c.analysis_id => r.name = c.new_name]_vars

\* C25: a token whose jti is blacklisted (by logout or by a refresh) is not
\* accepted again by any endpoint that takes it, and no refresh token is
\* answered 200 by /auth/refresh more than once.
C25_RevokedNeverAccepted ==
    /\ [](\A j \in 1..MaxTokens : refresh_uses[j] <= 1)
    /\ [][(auth_response' # auth_response
           /\ auth_response'.endpoint \in {"protected", "refresh", "websocket"}
           /\ auth_response'.jti \in blacklist) =>
              auth_response'.code = 401]_vars

\* C26: a tender holds between 1 and 5 documents in every state, whatever the
\* order in which the steps of add_documents and delete_document calls run;
\* an add that would pass 5 is answered 400, leaves the documents as they
\* were and deletes the files it stored; a delete of the last document is
\* answered 400.
C26_DocumentCount ==
    /\ [](\A t \in tenders : Len(documents[t]) >= 1 /\ Len(documents[t]) <= 5)
    /\ [][/\ (adding.pc = "uploaded" /\ adding'.pc = "idle"
              /\ Len(documents[adding.tender_id]) + Len(adding.files) > 5) =>
                 /\ doc_response'.code = 400
                 /\ documents' = documents
                 /\ tender_files' \cap Range(adding.files) = {}
          /\ \A r \in 1..MaxDeletes :
                (deleting[r].pc = "idle" /\ deleting'[r].pc = "checked") =>
                    Len(documents[deleting'[r].tender_id]) > 1]_vars

\* C27: with connect and disconnect running at the awaits of a send in
\* flight, no error leaves send_to_analysis_id, and a send that ends has
\* reached every channel that was in the topic when it started and is still
\* in it when it ends.
C27_ConcurrentRegistry ==
    /\ [](publishing.pc # "raised")
    /\ [][/\ (publishing.pc = "sending" /\ publishing'.pc = "idle") =>
                \A c \in Range(publishing.connections) :
                    c \in Range(active_connections'[publishing.analysis_id]) =>
                        publishing.message \in Range(inbox'[c])
          /\ (user_sending.pc = "sending" /\ user_sending'.pc = "idle") =>
                \A w \in Range(user_sending.at_call) :
                    (/\ user_sending.user_id \in DOMAIN user_connections'
                     /\ w \in Range(user_connections'[user_sending.user_id])) =>
                        user_sending.message \in Range(inbox'[w])]_vars

\* C28: a job's status only moves forward along PENDING, PROCESSING,
\* terminal: a stored job is PROCESSING at the step that sends its HTTP
\* request, a terminal job never becomes PROCESSING or PENDING again and a
\* PROCESSING job never becomes PENDING again. Stated for the jobs embedded
\* in tenders and for the execution records.
C28_Backward(old, new) ==
    \/ old \in {COMPLETED, FAILED, CANCELLED} /\ new \in {PENDING, PROCESSING}
    \/ old = PROCESSING /\ new = PENDING

C28_TenderJobsForward ==
    [][/\ \A a \in JobIds :
             (tasks[a].pc = "post" /\ tasks'[a].pc \in {"poll", "http_failed"}) =>
                \A i \in 1..Len(analysis_results[tasks[a].tender_id]) :
                    analysis_results[tasks[a].tender_id][i].id = a =>
                        analysis_results[tasks[a].tender_id][i].status = PROCESSING
       /\ \A t \in TenderIds : \A i \in 1..Len(analysis_results[t]) :
             i <= Len(analysis_results'[t]) =>
                ~C28_Backward(analysis_results[t][i].status,
                              analysis_results'[t][i].status)]_vars

C28_ExecutionsForward ==
    [][\A e \in ExecIds :
          /\ (exec_calls[e] = "post" /\ exec_calls'[e] \in {"posted", "http_error"}) =>
                (executions[e] # <<>> => executions[e][1].status = PROCESSING)
          /\ (executions[e] # <<>> /\ executions'[e] # <<>>) =>
                ~C28_Backward(executions[e][1].status, executions'[e][1].status)]_vars

C28_StatusHistory == C28_TenderJobsForward /\ C28_ExecutionsForward

\* C29: an accepted submission launches exactly one dispatcher, the one of
\* the job it answers with; a step of the dispatcher of job a leaves every
\* other job of the tender, every other topic and every channel outside
\* topic a as they were; and when the dispatcher ends, its job has the
\* status its own path wrote: COMPLETED after the completed notification,
\* FAILED after a failure notification.
C29_JobOf(res, t, a) ==
    {i \in 1..Len(res[t]) : res[t][i].id = a}

C29_DispatchersIndependent ==
    [][/\ \A a \in JobIds :
             (tasks[a].pc = "unborn" /\ tasks'[a].pc # "unborn") =>
                /\ request.pc = "checked"
                /\ response'.code = 202
                /\ response'.analysis_id = a
                /\ tasks'[a].pc = "mark"
       /\ (request.pc = "checked" /\ request'.pc = "idle" /\ response'.code = 202) =>
             Cardinality({a \in JobIds : tasks[a].pc = "unborn" /\ tasks'[a].pc = "mark"}) = 1
       /\ \A a \in JobIds :
             (tasks[a].pc # "unborn" /\ tasks'[a] # tasks[a]) =>
                /\ \A t \in TenderIds :
                      /\ Len(analysis_results'[t]) = Len(analysis_results[t])
                      /\ \A i \in 1..Len(analysis_results[t]) :
                            analysis_results[t][i].id # a =>
                                analysis_results'[t][i] = analysis_results[t][i]
                /\ \A b \in JobIds \ {a} : sent'[b] = sent[b]
                /\ \A c \in Channels :
                      inbox'[c] # inbox[c] =>
                         /\ a \in DOMAIN active_connections
                         /\ c \in Range(active_connections[a])
       /\ \A a \in JobIds :
             (tasks[a].pc \in {"notify_completed", "notify_http_failed", "notify_exception"}
              /\ tasks'[a].pc = "done") =>
                /\ C29_JobOf(analysis_results', tasks[a].tender_id, a) # {}
                /\ \A i \in C29_JobOf(analysis_results', tasks[a].tender_id, a) :
                      analysis_results'[tasks[a].tender_id][i].status =
                         IF tasks[a].pc = "notify_completed" THEN COMPLETED ELSE FAILED]_vars

C29_Witness ==
    /\ tasks[1].pc = "notify_completed"
    /\ tasks[2].pc = "notify_http_failed"
    /\ Len(analysis_results["t1"]) = 2
    /\ analysis_results["t1"][1].id = 1
    /\ analysis_results["t1"][1].status = COMPLETED
    /\ analysis_results["t1"][2].id = 2
    /\ analysis_results["t1"][2].status = FAILED

\* C30: an existing workspace always has a member with role OWNER, and a
\* remove-member call aimed at an OWNER member is rejected and leaves the
\* membership as it was.
C30_OwnerKept ==
    /\ [](workspace # <<>> => \E u \in Users : workspace_members[u] = "OWNER")
    /\ [][(/\ ws_response' # ws_response
           /\ ws_response'.op = "remove"
           /\ workspace_members[ws_response'.user] = "OWNER") =>
              /\ ws_response'.code \in {400, 403}
              /\ workspace_members' = workspace_members]_vars

====
